---- MODULE Spec2Model ----
(***************************************************************************)
(* A model of the micropdf geometry kernel (Point, Rect, Matrix, Quad) and  *)
(* of the pure-Python Buffer, as the classes of                            *)
(* benchmarks/cross_language_overhead.py and                                *)
(* micropdf-py/benchmarks/benchmark.py define it, of the Context/Buffer     *)
(* resource discipline those benchmarks drive, and of merge_pdfs as the     *)
(* tests of micropdf-py/tests/test_enhanced.py call it.                     *)
(*                                                                         *)
(* Numbers.  Python floats are modelled as exact rationals <<n, d>> in      *)
(* lowest terms with d > 0.  On the inputs drawn here (small integers and   *)
(* halves) every sum and product of the code is a dyadic rational of a few  *)
(* bits, so IEEE-754 double arithmetic computes it exactly and the model    *)
(* agrees with the code bit for bit.  The one inexact operation is the      *)
(* division 1.0 / det of Matrix.invert when det is not a power of two;      *)
(* DetExact says when the division is exact.                                *)
(***************************************************************************)
EXTENDS Integers, Sequences, FiniteSets, TLC

VARIABLES
    m,      \* geometry: the receiver matrix
    o,      \* geometry: the argument matrix
    p,      \* geometry: the point operand
    r,      \* geometry: the receiver rect
    s,      \* geometry: the argument rect
    op,     \* geometry: the last operation applied
    out,    \* geometry: what the last operation returned
    ctxs,   \* resources: every Context created so far, by handle
    bufs,   \* resources: every Buffer created so far, by handle
    docs,   \* resources: every document opened so far, by handle
    pc,     \* resources: where the caller is
    err,    \* resources: how the last call ended ("ok" or the error raised)
    loc     \* resources: the caller's local variables

geomVars == <<m, o, p, r, s, op, out>>

resVars == <<ctxs, bufs, docs, pc, err, loc>>

vars == <<m, o, p, r, s, op, out, ctxs, bufs, docs, pc, err, loc>>

(***************************************************************************)
(* Bounds of the bounded inputs.                                           *)
(***************************************************************************)
\* Linear coefficients a,b,c,d of the inverted matrices are k/2, |k| <= MaxHalf.
MaxHalf == 2
\* Translations e,f of the inverted matrices are integers 0..MaxTrans.
MaxTrans == 1
\* Parameters of Matrix.scale / Matrix.translate and shears are in -MaxArg..MaxArg.
MaxArg == 1
\* Point coordinates are integers in 0..MaxPt.
MaxPt == 1
\* Rect coordinates (any order, so denormalized rects too) are in -MaxRect..MaxRect.
MaxRect == 1
\* Coordinates of the normalized rects that are intersected are in 0..MaxNorm.
MaxNorm == 3
\* Contexts and Buffers a client of the resource interface creates, at most.
MaxCtx == 1
MaxBuf == 1
\* Bytes a Buffer holds, at most, and the capacities asked for are 0..MaxLen.
MaxLen == 3
\* Calls of the benchmarked function per benchmark() (the code makes
\* warmup + iterations of them).
MaxIter == 15
\* Input paths given to merge_pdfs, at most.
MaxInputs == 2
\* The pure Buffer: bytes of a sequence, capacity and appends made, at most.
MaxData == 2
MaxCap == 2
MaxAppends == 2
\* Geometry calls made one after another on shared objects, at most.
MaxCalls == 2
\* Items folded into a bounding box, at most, and their coordinates 0..MaxItemCoord.
MaxItems == 2
MaxItemCoord == 1

(***************************************************************************)
(* Float arithmetic, as exact rationals.                                   *)
(***************************************************************************)
Abs(i) == IF i < 0 THEN -i ELSE i

RECURSIVE GCD(_, _)
GCD(a, b) == IF b = 0 THEN a ELSE GCD(b, a % b)

\* The rational n/d (d # 0) in lowest terms with a positive denominator.
Norm(n, d) ==
    LET g == GCD(Abs(n), Abs(d))
        sg == IF d < 0 THEN -1 ELSE 1
    IN  <<(sg * n) \div g, (sg * d) \div g>>

\* float(x) of a Python int.
Float(i) == <<i, 1>>

FAdd(x, y) == Norm(x[1] * y[2] + y[1] * x[2], x[2] * y[2])
FNeg(x) == <<-x[1], x[2]>>
FSub(x, y) == FAdd(x, FNeg(y))
FMul(x, y) == Norm(x[1] * y[1], x[2] * y[2])
\* x / y, y # 0
FDiv(x, y) == Norm(x[1] * y[2], x[2] * y[1])
FAbs(x) == <<Abs(x[1]), x[2]>>
FLt(x, y) == x[1] * y[2] < y[1] * x[2]
FLe(x, y) == x[1] * y[2] <= y[1] * x[2]

\* min(...) and max(...) of Python over a non-empty sequence of floats: the
\* first element is kept unless a later one is strictly smaller (larger).
RECURSIVE FMinFrom(_, _, _)
FMinFrom(xs, i, best) ==
    IF i > Len(xs) THEN best
    ELSE FMinFrom(xs, i + 1, IF FLt(xs[i], best) THEN xs[i] ELSE best)
FMin(xs) == FMinFrom(xs, 2, xs[1])

RECURSIVE FMaxFrom(_, _, _)
FMaxFrom(xs, i, best) ==
    IF i > Len(xs) THEN best
    ELSE FMaxFrom(xs, i + 1, IF FLt(best, xs[i]) THEN xs[i] ELSE best)
FMax(xs) == FMaxFrom(xs, 2, xs[1])

\* The exponent of the literal 1e-14 in Matrix.invert.
EpsilonExp == 14

\* n/d < 10^(-k) for n >= 0, d > 0, without forming 10^k:
\* n * 10 < d  iff  n < ceil(d / 10).
RECURSIVE LtPow10Neg(_, _, _)
LtPow10Neg(n, d, k) ==
    IF k = 0 THEN n < d ELSE LtPow10Neg(n, (d + 9) \div 10, k - 1)

\* x < 1e-14 for a non-negative float x.
LtEpsilon(x) == LtPow10Neg(x[1], x[2], EpsilonExp)

(***************************************************************************)
(* Point, Rect, Matrix.                                                    *)
(***************************************************************************)
Point(x, y) == [x |-> x, y |-> y]

Rect(x0, y0, x1, y1) == [x0 |-> x0, y0 |-> y0, x1 |-> x1, y1 |-> y1]

Matrix(a, b, c, d, e, f) == [a |-> a, b |-> b, c |-> c, d |-> d, e |-> e, f |-> f]

MatrixIdentity == Matrix(Float(1), Float(0), Float(0), Float(1), Float(0), Float(0))

MatrixScale(sx, sy) == Matrix(sx, Float(0), Float(0), sy, Float(0), Float(0))

MatrixTranslate(tx, ty) == Matrix(Float(1), Float(0), Float(0), Float(1), tx, ty)

\* Point.transform
PointTransform(pt, mx) ==
    Point(FAdd(FAdd(FMul(pt.x, mx.a), FMul(pt.y, mx.c)), mx.e),
          FAdd(FAdd(FMul(pt.x, mx.b), FMul(pt.y, mx.d)), mx.f))

\* Rect.width and Rect.height
RectWidth(rc) == FAbs(FSub(rc.x1, rc.x0))

RectHeight(rc) == FAbs(FSub(rc.y1, rc.y0))

\* Rect.contains
RectContains(rc, pt) ==
    /\ FLe(rc.x0, pt.x) /\ FLe(pt.x, rc.x1)
    /\ FLe(rc.y0, pt.y) /\ FLe(pt.y, rc.y1)

\* A plausible slip: the lower corner of the receiver is kept, only the upper
\* corner grows.
RectUnionUpperOnly(rc, other) ==
    Rect(rc.x0, rc.y0,
         FMax(<<rc.x1, other.x1>>), FMax(<<rc.y1, other.y1>>))

\* Rect.union
RectUnion(rc, other) ==
    Rect(FMin(<<rc.x0, other.x0>>), FMin(<<rc.y0, other.y0>>),
         FMax(<<rc.x1, other.x1>>), FMax(<<rc.y1, other.y1>>))

\* Rect.intersect
RectIntersect(rc, other) ==
    Rect(FMax(<<rc.x0, other.x0>>), FMax(<<rc.y0, other.y0>>),
         FMin(<<rc.x1, other.x1>>), FMin(<<rc.y1, other.y1>>))

\* A plausible slip: only two opposite corners are transformed.
RectTransformTwoCorners(rc, mx) ==
    LET p1 == PointTransform(Point(rc.x0, rc.y0), mx)
        p4 == PointTransform(Point(rc.x1, rc.y1), mx)
    IN  Rect(FMin(<<p1.x, p4.x>>), FMin(<<p1.y, p4.y>>),
             FMax(<<p1.x, p4.x>>), FMax(<<p1.y, p4.y>>))

\* Rect.transform of cross_language_overhead.py: the four corners inline.
RectTransformInline(rc, mx) ==
    LET p1x == FAdd(FAdd(FMul(rc.x0, mx.a), FMul(rc.y0, mx.c)), mx.e)
        p1y == FAdd(FAdd(FMul(rc.x0, mx.b), FMul(rc.y0, mx.d)), mx.f)
        p2x == FAdd(FAdd(FMul(rc.x1, mx.a), FMul(rc.y0, mx.c)), mx.e)
        p2y == FAdd(FAdd(FMul(rc.x1, mx.b), FMul(rc.y0, mx.d)), mx.f)
        p3x == FAdd(FAdd(FMul(rc.x0, mx.a), FMul(rc.y1, mx.c)), mx.e)
        p3y == FAdd(FAdd(FMul(rc.x0, mx.b), FMul(rc.y1, mx.d)), mx.f)
        p4x == FAdd(FAdd(FMul(rc.x1, mx.a), FMul(rc.y1, mx.c)), mx.e)
        p4y == FAdd(FAdd(FMul(rc.x1, mx.b), FMul(rc.y1, mx.d)), mx.f)
    IN  Rect(FMin(<<p1x, p2x, p3x, p4x>>), FMin(<<p1y, p2y, p3y, p4y>>),
             FMax(<<p1x, p2x, p3x, p4x>>), FMax(<<p1y, p2y, p3y, p4y>>))

\* Rect.transform of benchmark.py: Point.transform on each corner.
RectTransform(rc, mx) ==
    LET corners == << PointTransform(Point(rc.x0, rc.y0), mx),
                      PointTransform(Point(rc.x1, rc.y0), mx),
                      PointTransform(Point(rc.x0, rc.y1), mx),
                      PointTransform(Point(rc.x1, rc.y1), mx) >>
        xs == [i \in 1..4 |-> corners[i].x]
        ys == [i \in 1..4 |-> corners[i].y]
    IN  Rect(FMin(xs), FMin(ys), FMax(xs), FMax(ys))

\* A plausible slip: the operands multiplied in the other order (other first).
MatrixConcatSwapped(self, other) ==
    Matrix(FAdd(FMul(other.a, self.a), FMul(other.b, self.c)),
           FAdd(FMul(other.a, self.b), FMul(other.b, self.d)),
           FAdd(FMul(other.c, self.a), FMul(other.d, self.c)),
           FAdd(FMul(other.c, self.b), FMul(other.d, self.d)),
           FAdd(FAdd(FMul(other.e, self.a), FMul(other.f, self.c)), self.e),
           FAdd(FAdd(FMul(other.e, self.b), FMul(other.f, self.d)), self.f))

\* A plausible slip: the translation of other is dropped.
MatrixConcatNoTranslate(self, other) ==
    Matrix(FAdd(FMul(self.a, other.a), FMul(self.b, other.c)),
           FAdd(FMul(self.a, other.b), FMul(self.b, other.d)),
           FAdd(FMul(self.c, other.a), FMul(self.d, other.c)),
           FAdd(FMul(self.c, other.b), FMul(self.d, other.d)),
           FAdd(FMul(self.e, other.a), FMul(self.f, other.c)),
           FAdd(FMul(self.e, other.b), FMul(self.f, other.d)))

\* Matrix.concat
MatrixConcat(self, other) ==
    Matrix(FAdd(FMul(self.a, other.a), FMul(self.b, other.c)),
           FAdd(FMul(self.a, other.b), FMul(self.b, other.d)),
           FAdd(FMul(self.c, other.a), FMul(self.d, other.c)),
           FAdd(FMul(self.c, other.b), FMul(self.d, other.d)),
           FAdd(FAdd(FMul(self.e, other.a), FMul(self.f, other.c)), other.e),
           FAdd(FAdd(FMul(self.e, other.b), FMul(self.f, other.d)), other.f))

\* What an operation returned: None, or a value.
NoneValue == [kind |-> "None"]

Some(kind, val) == [kind |-> kind, val |-> val]

\* det = self.a * self.d - self.b * self.c
MatrixDet(self) == FSub(FMul(self.a, self.d), FMul(self.b, self.c))

\* The analytic inverse, for det # 0.
MatrixInverseOf(self) ==
    LET det == MatrixDet(self)
        inv_det == FDiv(Float(1), det)
    IN  Matrix(FMul(self.d, inv_det),
               FMul(FNeg(self.b), inv_det),
               FMul(FNeg(self.c), inv_det),
               FMul(self.a, inv_det),
               FMul(FSub(FMul(self.c, self.f), FMul(self.d, self.e)), inv_det),
               FMul(FSub(FMul(self.b, self.e), FMul(self.a, self.f)), inv_det))

\* A plausible slip: the test is det < 1e-14, without abs().
MatrixInvertNoAbs(self) ==
    IF MatrixDet(self)[1] <= 0 \/ LtEpsilon(MatrixDet(self))
    THEN NoneValue
    ELSE Some("Matrix", MatrixInverseOf(self))

\* A plausible slip: the translation of the inverse is only negated.
MatrixInvertNegatedTranslation(self) ==
    IF LtEpsilon(FAbs(MatrixDet(self)))
    THEN NoneValue
    ELSE Some("Matrix", [MatrixInverseOf(self) EXCEPT !.e = FNeg(self.e),
                                                       !.f = FNeg(self.f)])

\* Matrix.invert
MatrixInvert(self) ==
    IF LtEpsilon(FAbs(MatrixDet(self)))
    THEN NoneValue
    ELSE Some("Matrix", MatrixInverseOf(self))

(***************************************************************************)
(* Bounded inputs of the geometry operations.                              *)
(***************************************************************************)
Halves == { Norm(k, 2) : k \in -MaxHalf..MaxHalf }

Args == { Float(k) : k \in -MaxArg..MaxArg }

\* Matrices given to invert(): any linear part over the halves.
InvertMatrices ==
    { Matrix(t[1], t[2], t[3], t[4], Float(t[5]), Float(t[6])) :
        t \in Halves \X Halves \X Halves \X Halves \X (0..MaxTrans) \X (0..MaxTrans) }

\* Matrices that have all six coefficients non-trivial.
DenseMatrices ==
    { Matrix(Float(2), Float(1), Float(1), Float(1), Float(1), Float(2)),
      Matrix(Float(0), Float(-1), Float(1), Float(0), Float(3), Float(-1)),
      Matrix(Float(1), Float(2), Float(-1), Float(0), Float(-2), Float(1)) }

\* Matrices that are composed and applied: what the constructors of the code
\* return (identity, scale, translate), shears and rotations by quarter turns
\* built with Matrix(...), and the dense matrices.
ComposeMatrices ==
    {MatrixIdentity}
    \cup { MatrixScale(sx, sy) : sx \in Args, sy \in Args }
    \cup { MatrixTranslate(tx, ty) : tx \in Args, ty \in Args }
    \cup { Matrix(Float(1), b, c, Float(1), Float(0), Float(0)) : b \in Args, c \in Args }
    \cup { Matrix(Float(0), b, c, Float(0), Float(0), Float(0)) : b \in Args, c \in Args }
    \cup DenseMatrices

Points == { Point(Float(x), Float(y)) : x \in 0..MaxPt, y \in 0..MaxPt }

\* Rects as the constructor takes them: any four coordinates, normalized or not.
Rects ==
    { Rect(Float(t[1]), Float(t[2]), Float(t[3]), Float(t[4])) :
        t \in (-MaxRect..MaxRect) \X (-MaxRect..MaxRect)
              \X (-MaxRect..MaxRect) \X (-MaxRect..MaxRect) }

\* Normalized rects: x0 <= x1 and y0 <= y1.
NormRects ==
    { Rect(Float(t[1]), Float(t[2]), Float(t[3]), Float(t[4])) :
        t \in { q \in (0..MaxNorm) \X (0..MaxNorm) \X (0..MaxNorm) \X (0..MaxNorm) :
                  q[1] <= q[3] /\ q[2] <= q[4] } }

(***************************************************************************)
(* The geometry operations as steps: Init draws the operands, each action  *)
(* applies one operation of the code to them and keeps what it returned.   *)
(***************************************************************************)
ResIdle ==
    /\ ctxs = <<>>
    /\ bufs = <<>>
    /\ docs = <<>>
    /\ pc = "idle"
    /\ err = "ok"
    /\ loc = [caller |-> "none"]

GeomDefault ==
    /\ m = MatrixIdentity
    /\ o = MatrixIdentity
    /\ p = Point(Float(0), Float(0))
    /\ r = Rect(Float(0), Float(0), Float(0), Float(0))
    /\ s = Rect(Float(0), Float(0), Float(0), Float(0))
    /\ op = "init"
    /\ out = NoneValue

\* ---- Matrix.concat with identity, Matrix.invert -------------------------
InitMatrix ==
    /\ m \in InvertMatrices
    /\ o = MatrixIdentity
    /\ p = Point(Float(0), Float(0))
    /\ r = Rect(Float(0), Float(0), Float(0), Float(0))
    /\ s = Rect(Float(0), Float(0), Float(0), Float(0))
    /\ op = "init"
    /\ out = NoneValue
    /\ ResIdle

\* m.concat(Matrix.identity())
DoConcatIdentity ==
    /\ op = "init"
    /\ o' = MatrixIdentity
    /\ out' = Some("Matrix", MatrixConcat(m, MatrixIdentity))
    /\ op' = "m.concat(identity)"
    /\ UNCHANGED <<m, p, r, s>>
    /\ UNCHANGED resVars

\* Matrix.identity().concat(m)
DoIdentityConcat ==
    /\ op = "init"
    /\ o' = MatrixIdentity
    /\ out' = Some("Matrix", MatrixConcat(MatrixIdentity, m))
    /\ op' = "identity.concat(m)"
    /\ UNCHANGED <<m, p, r, s>>
    /\ UNCHANGED resVars

\* m.invert()
DoInvert ==
    /\ op = "init"
    /\ out' = MatrixInvert(m)
    /\ op' = "m.invert()"
    /\ UNCHANGED <<m, o, p, r, s>>
    /\ UNCHANGED resVars

\* m.concat(m.invert()), once invert() has returned a matrix
DoConcatInverse ==
    /\ op = "m.invert()"
    /\ out.kind = "Matrix"
    /\ o' = out.val
    /\ out' = Some("Matrix", MatrixConcat(m, out.val))
    /\ op' = "m.concat(m.invert())"
    /\ UNCHANGED <<m, p, r, s>>
    /\ UNCHANGED resVars

NextMatrix ==
    \/ DoConcatIdentity
    \/ DoIdentityConcat
    \/ DoInvert
    \/ DoConcatInverse

SpecMatrix == InitMatrix /\ [][NextMatrix]_vars

RECURSIVE IsPow2(_)
IsPow2(n) == IF n <= 1 THEN n = 1 ELSE (n % 2 = 0 /\ IsPow2(n \div 2))

\* The determinant is plus or minus a power of two, so 1.0 / det and every
\* coefficient of the inverse are computed without rounding.
DetExact(mx) ==
    LET det == FMul(mx.a, mx.d)[1] * FMul(mx.b, mx.c)[2]
               - FMul(mx.b, mx.c)[1] * FMul(mx.a, mx.d)[2]
        den == FMul(mx.a, mx.d)[2] * FMul(mx.b, mx.c)[2]
    IN  det # 0 /\ IsPow2(Abs(det)) /\ IsPow2(den)

\* C5: for every matrix m, m.concat(Matrix.identity()) and
\* Matrix.identity().concat(m) both have exactly the six coefficients of m.
C5_IdentityNeutral ==
    (op = "m.concat(identity)" \/ op = "identity.concat(m)")
        => /\ out.kind = "Matrix"
           /\ out.val.a = m.a /\ out.val.b = m.b /\ out.val.c = m.c
           /\ out.val.d = m.d /\ out.val.e = m.e /\ out.val.f = m.f

\* C5 witness: identity is concatenated on the left of a matrix that has a
\* rotation/shear part, a fractional coefficient and a translation.
C5_Witness ==
    /\ op = "identity.concat(m)"
    /\ m.b = Norm(1, 2) /\ m.c = Float(-1) /\ m.e = Float(1) /\ m.f = Float(1)
    /\ out.kind = "Matrix"

\* C6: for every invertible matrix m whose inverse is exactly representable,
\* m.concat(m.invert()) is exactly Matrix.identity(), translation included.
C6_InverseLaw ==
    (op = "m.concat(m.invert())" /\ DetExact(m))
        => out = Some("Matrix", MatrixIdentity)

\* C6 witness: the inverse of a matrix with determinant -1/2, off-diagonal
\* coefficients and a translation has been concatenated to it.
C6_Witness ==
    /\ op = "m.concat(m.invert())"
    /\ DetExact(m)
    /\ m.a = Norm(1, 2) /\ m.b = Float(1) /\ m.c = Float(1) /\ m.d = Float(1)
    /\ m.e = Float(1) /\ m.f = Float(1)
    /\ o # m

\* C7: invert() returns no matrix exactly when a*d = b*c (|det| < 1e-14 on
\* these coefficients), whatever e and f are, and returns a matrix otherwise.
C7_InvertFailsIffSingular ==
    op = "m.invert()"
        => /\ (out = NoneValue) <=> (FMul(m.a, m.d) = FMul(m.b, m.c))
           /\ (out # NoneValue) => out.kind = "Matrix"

\* C7 witness: invert() has signalled a singular matrix that has no zero
\* coefficient in its linear part and a translation.
C7_Witness ==
    /\ op = "m.invert()"
    /\ out = NoneValue
    /\ m.a = Float(1) /\ m.b = Norm(1, 2) /\ m.c = Float(-1) /\ m.d = Norm(-1, 2)
    /\ m.e = Float(1)

\* ---- Matrix.concat against Point.transform -------------------------------
InitCompose ==
    /\ m \in ComposeMatrices
    /\ o \in ComposeMatrices
    /\ p \in Points
    /\ r = Rect(Float(0), Float(0), Float(0), Float(0))
    /\ s = Rect(Float(0), Float(0), Float(0), Float(0))
    /\ op = "init"
    /\ out = NoneValue
    /\ ResIdle

\* m.concat(o)
DoConcat ==
    /\ op = "init"
    /\ out' = Some("Matrix", MatrixConcat(m, o))
    /\ op' = "m.concat(o)"
    /\ UNCHANGED <<m, o, p, r, s>>
    /\ UNCHANGED resVars

\* p.transform(m.concat(o))
DoTransformByConcat ==
    /\ op = "m.concat(o)"
    /\ out' = Some("Point", PointTransform(p, out.val))
    /\ op' = "p.transform(m.concat(o))"
    /\ UNCHANGED <<m, o, p, r, s>>
    /\ UNCHANGED resVars

\* p.transform(m)
DoTransformBySelf ==
    /\ op = "init"
    /\ out' = Some("Point", PointTransform(p, m))
    /\ op' = "p.transform(m)"
    /\ UNCHANGED <<m, o, p, r, s>>
    /\ UNCHANGED resVars

\* p.transform(m).transform(o)
DoTransformByOther ==
    /\ op = "p.transform(m)"
    /\ out' = Some("Point", PointTransform(out.val, o))
    /\ op' = "p.transform(m).transform(o)"
    /\ UNCHANGED <<m, o, p, r, s>>
    /\ UNCHANGED resVars

NextCompose ==
    \/ DoConcat
    \/ DoTransformByConcat
    \/ DoTransformBySelf
    \/ DoTransformByOther

SpecCompose == InitCompose /\ [][NextCompose]_vars

\* x*a + y*c + e and x*b + y*d + f, written out on numerators (the operands
\* of SpecCompose are integers).
AppliedTo(pt, mx) ==
    Point(Float(pt.x[1] * mx.a[1] + pt.y[1] * mx.c[1] + mx.e[1]),
          Float(pt.x[1] * mx.b[1] + pt.y[1] * mx.d[1] + mx.f[1]))

\* C8: p.transform(m.concat(o)) equals p.transform(m).transform(o), where
\* transform is x' = x*a + y*c + e, y' = x*b + y*d + f: concat composes in
\* application order, self first and then other.
C8_ConcatComposes ==
    /\ op = "p.transform(m.concat(o))" => out.val = AppliedTo(AppliedTo(p, m), o)
    /\ op = "p.transform(m).transform(o)" => out.val = AppliedTo(AppliedTo(p, m), o)
    /\ op = "p.transform(m)" => out.val = AppliedTo(p, m)

\* C8 witness: a point off the origin has been sent through the concatenation
\* of two matrices that do not commute, one of them with a translation.
C8_Witness ==
    /\ op = "p.transform(m.concat(o))"
    /\ p = Point(Float(1), Float(1))
    /\ m = MatrixTranslate(Float(1), Float(-1))
    /\ o = Matrix(Float(2), Float(1), Float(1), Float(1), Float(1), Float(2))
    /\ MatrixConcat(m, o) # MatrixConcat(o, m)

\* ---- Rect.transform ------------------------------------------------------
InitRectTransform ==
    /\ m \in ComposeMatrices
    /\ o = MatrixIdentity
    /\ p = Point(Float(0), Float(0))
    /\ r \in Rects
    /\ s = Rect(Float(0), Float(0), Float(0), Float(0))
    /\ op = "init"
    /\ out = NoneValue
    /\ ResIdle

\* r.transform(m), cross_language_overhead.py
DoRectTransformInline ==
    /\ op = "init"
    /\ out' = Some("Rect", RectTransformInline(r, m))
    /\ op' = "r.transform(m) inline"
    /\ UNCHANGED <<m, o, p, r, s>>
    /\ UNCHANGED resVars

\* r.transform(m), benchmark.py
DoRectTransform ==
    /\ op = "init"
    /\ out' = Some("Rect", RectTransform(r, m))
    /\ op' = "r.transform(m)"
    /\ UNCHANGED <<m, o, p, r, s>>
    /\ UNCHANGED resVars

NextRectTransform ==
    \/ DoRectTransformInline
    \/ DoRectTransform

SpecRectTransform == InitRectTransform /\ [][NextRectTransform]_vars

\* The images of the four corners (x0,y0), (x1,y0), (x0,y1), (x1,y1).
CornerImages(rc, mx) ==
    { AppliedTo(Point(rc.x0, rc.y0), mx), AppliedTo(Point(rc.x1, rc.y0), mx),
      AppliedTo(Point(rc.x0, rc.y1), mx), AppliedTo(Point(rc.x1, rc.y1), mx) }

\* box is the axis-aligned bounding box of the points qs: it holds every
\* point, and each of its four sides touches one.
IsBoundingBox(box, qs) ==
    /\ \A q \in qs : /\ box.x0[1] <= q.x[1] /\ q.x[1] <= box.x1[1]
                     /\ box.y0[1] <= q.y[1] /\ q.y[1] <= box.y1[1]
    /\ \E q \in qs : q.x = box.x0
    /\ \E q \in qs : q.x = box.x1
    /\ \E q \in qs : q.y = box.y0
    /\ \E q \in qs : q.y = box.y1

\* C9: for every rect r and matrix m, both implementations of r.transform(m)
\* return the bounding box of the four transformed corners (min and max per
\* axis), which is normalized and contains the image of every corner, and
\* the two implementations return the same rect.
C9_RectTransformIsBoundingBox ==
    /\ op = "r.transform(m) inline"
         => /\ IsBoundingBox(out.val, CornerImages(r, m))
            /\ out.val.x0[1] <= out.val.x1[1] /\ out.val.y0[1] <= out.val.y1[1]
            /\ out.val = RectTransform(r, m)
    /\ op = "r.transform(m)"
         => /\ IsBoundingBox(out.val, CornerImages(r, m))
            /\ out.val.x0[1] <= out.val.x1[1] /\ out.val.y0[1] <= out.val.y1[1]
            /\ out.val = RectTransformInline(r, m)

\* C9 witness: a rect has been transformed by a shear with a negative
\* coefficient, so that the extremes are the images of (x1,y0) and (x0,y1)
\* and not of the two corners the rect is built from.
C9_Witness ==
    /\ op = "r.transform(m) inline"
    /\ m = Matrix(Float(1), Float(-1), Float(1), Float(1), Float(0), Float(0))
    /\ r = Rect(Float(0), Float(0), Float(1), Float(1))
    /\ out.val = Rect(Float(0), Float(-1), Float(2), Float(1))

\* C9 witness, second implementation: a denormalized rect under a negative scale.
C9_WitnessPointBased ==
    /\ op = "r.transform(m)"
    /\ m = MatrixScale(Float(-1), Float(1))
    /\ r = Rect(Float(1), Float(1), Float(-1), Float(0))
    /\ out.val = Rect(Float(-1), Float(0), Float(1), Float(1))

\* ---- Rect.intersect, Rect.width, Rect.height ------------------------------
InitRectPair ==
    /\ m = MatrixIdentity
    /\ o = MatrixIdentity
    /\ p = Point(Float(0), Float(0))
    /\ r \in NormRects
    /\ s \in NormRects
    /\ op = "init"
    /\ out = NoneValue
    /\ ResIdle

\* r.intersect(s)
DoIntersect ==
    /\ op = "init"
    /\ out' = Some("Rect", RectIntersect(r, s))
    /\ op' = "r.intersect(s)"
    /\ UNCHANGED <<m, o, p, r, s>>
    /\ UNCHANGED resVars

\* r.intersect(s).width() and r.intersect(s).height()
DoIntersectSize ==
    /\ op = "r.intersect(s)"
    /\ out' = Some("Size", [width |-> RectWidth(out.val), height |-> RectHeight(out.val)])
    /\ op' = "r.intersect(s).width(), .height()"
    /\ UNCHANGED <<m, o, p, r, s>>
    /\ UNCHANGED resVars

NextRectPair ==
    \/ DoIntersect
    \/ DoIntersectSize

SpecRectPair == InitRectPair /\ [][NextRectPair]_vars

\* r and s share no point.
Apart(rc, other) ==
    \/ rc.x1[1] < other.x0[1] \/ other.x1[1] < rc.x0[1]
    \/ rc.y1[1] < other.y0[1] \/ other.y1[1] < rc.y0[1]

\* C10: for any two normalized rects that do not overlap, the rect that
\* intersect returns is detectable as empty through its accessors: its
\* width() or its height() is non-positive.
C10_DisjointIntersectIsEmpty ==
    (op = "r.intersect(s).width(), .height()" /\ Apart(r, s))
        => (out.val.width[1] <= 0 \/ out.val.height[1] <= 0)

(***************************************************************************)
(* Context and Buffer: the resource interface.  A handle is the index of   *)
(* its record in ctxs / bufs; a record is never removed, so a handle that  *)
(* has been released stays known as released.                              *)
(***************************************************************************)
\* The byte sequences handed to from_bytes and append: for each length up to
\* MaxLen, the bytes "x", 0, "x", 0, ...
ByteSeqs == { [i \in 1..n |-> IF i % 2 = 1 THEN 120 ELSE 0] : n \in 0..MaxLen }

\* A plausible slip: a handle is taken as usable without looking at its state.
ContextUsableUnchecked(c) == c \in 1..Len(ctxs)

\* ctx has been created and not destroyed.
ContextUsable(c) == c \in 1..Len(ctxs) /\ ctxs[c].state = "live"

\* A plausible slip: the Buffer's own state and its Context are not looked at.
BufferUsableUnchecked(b) == b \in 1..Len(bufs)

\* buf has been created and not released, and its Context is still live.
BufferUsable(b) ==
    /\ b \in 1..Len(bufs)
    /\ bufs[b].state = "live"
    /\ ContextUsable(bufs[b].ctx)

\* Context.create()
ContextCreate ==
    /\ ctxs' = Append(ctxs, [state |-> "live", destroys |-> 0])
    /\ err' = "ok"
    /\ UNCHANGED <<bufs, docs>>

\* Context.destroy(ctx) / ctx.drop()
ContextDestroy(c) ==
    /\ IF ContextUsable(c)
       THEN /\ ctxs' = [ctxs EXCEPT ![c] = [state |-> "destroyed",
                                            destroys |-> @.destroys + 1]]
            /\ err' = "ok"
       ELSE /\ ctxs' = ctxs
            /\ err' = "UseAfterRelease"
    /\ UNCHANGED <<bufs, docs>>

\* The Buffer that create / from_bytes makes under ctx c.
NewBuffer(c, data) == [state |-> "live", ctx |-> c, data |-> data, releases |-> 0]

\* Buffer.create(ctx, capacity) / Buffer(ctx, capacity): capacity is reserved,
\* the buffer is empty.
BufferCreate(c, capacity) ==
    /\ IF ContextUsable(c)
       THEN /\ bufs' = Append(bufs, NewBuffer(c, <<>>))
            /\ err' = "ok"
       ELSE /\ bufs' = bufs
            /\ err' = "UseAfterRelease"
    /\ UNCHANGED <<ctxs, docs>>

\* Buffer.from_bytes(ctx, data): a copy of data.
BufferFromBytes(c, data) ==
    /\ IF ContextUsable(c)
       THEN /\ bufs' = Append(bufs, NewBuffer(c, data))
            /\ err' = "ok"
       ELSE /\ bufs' = bufs
            /\ err' = "UseAfterRelease"
    /\ UNCHANGED <<ctxs, docs>>

\* Buffer.append(data)
BufferAppend(b, data) ==
    /\ IF BufferUsable(b)
       THEN /\ bufs' = [bufs EXCEPT ![b].data = @ \o data]
            /\ err' = "ok"
       ELSE /\ bufs' = bufs
            /\ err' = "UseAfterRelease"
    /\ UNCHANGED <<ctxs, docs>>

\* Buffer.length() and Buffer.data(): nothing changes; Returned is the value.
BufferRead(b) ==
    /\ err' = IF BufferUsable(b) THEN "ok" ELSE "UseAfterRelease"
    /\ UNCHANGED <<ctxs, bufs, docs>>

BufferLength(b) == IF BufferUsable(b) THEN Some("int", Len(bufs[b].data)) ELSE NoneValue

BufferData(b) == IF BufferUsable(b) THEN Some("bytes", bufs[b].data) ELSE NoneValue

\* Buffer.release(buf) / buf.drop()
BufferRelease(b) ==
    /\ IF BufferUsable(b)
       THEN /\ bufs' = [bufs EXCEPT ![b].state = "released",
                                    ![b].releases = @ + 1]
            /\ err' = "ok"
       ELSE /\ bufs' = bufs
            /\ err' = "UseAfterRelease"
    /\ UNCHANGED <<ctxs, docs>>

\* ---- A client that calls the interface in any order ----------------------
InitClient ==
    /\ GeomDefault
    /\ ctxs = <<>>
    /\ bufs = <<>>
    /\ docs = <<>>
    /\ pc = "client"
    /\ err = "ok"
    /\ loc = [caller |-> "client", call |-> "none", target |-> 0, ret |-> NoneValue]

Called(name, target, ret) ==
    /\ loc' = [caller |-> "client", call |-> name, target |-> target, ret |-> ret]
    /\ UNCHANGED pc
    /\ UNCHANGED geomVars

ClientContextCreate ==
    /\ Len(ctxs) < MaxCtx
    /\ ContextCreate
    /\ Called("Context.create", Len(ctxs) + 1, NoneValue)

ClientContextDestroy ==
    \E c \in 1..Len(ctxs) :
        /\ ContextDestroy(c)
        /\ Called("Context.destroy", c, NoneValue)

ClientBufferCreate ==
    \E c \in 1..Len(ctxs), capacity \in 0..MaxLen :
        /\ Len(bufs) < MaxBuf
        /\ BufferCreate(c, capacity)
        /\ Called("Buffer.create", c, NoneValue)

ClientBufferFromBytes ==
    \E c \in 1..Len(ctxs), data \in ByteSeqs :
        /\ Len(bufs) < MaxBuf
        /\ BufferFromBytes(c, data)
        /\ Called("Buffer.from_bytes", c, NoneValue)

ClientBufferAppend ==
    \E b \in 1..Len(bufs), data \in ByteSeqs :
        /\ Len(bufs[b].data) + Len(data) <= MaxLen
        /\ BufferAppend(b, data)
        /\ Called("Buffer.append", b, NoneValue)

ClientBufferLength ==
    \E b \in 1..Len(bufs) :
        /\ BufferRead(b)
        /\ Called("Buffer.length", b, BufferLength(b))

ClientBufferData ==
    \E b \in 1..Len(bufs) :
        /\ BufferRead(b)
        /\ Called("Buffer.data", b, BufferData(b))

ClientBufferRelease ==
    \E b \in 1..Len(bufs) :
        /\ BufferRelease(b)
        /\ Called("Buffer.release", b, NoneValue)

NextClient ==
    \/ ClientContextCreate
    \/ ClientContextDestroy
    \/ ClientBufferCreate
    \/ ClientBufferFromBytes
    \/ ClientBufferAppend
    \/ ClientBufferLength
    \/ ClientBufferData
    \/ ClientBufferRelease

SpecClient == InitClient /\ [][NextClient]_vars

\* The call made in this step is on a handle that was dead before the step:
\* a Buffer already released, a Buffer whose Context was destroyed, or a
\* Context already destroyed.
CallOnDeadHandle ==
    \/ /\ loc'.call \in {"Buffer.append", "Buffer.length", "Buffer.data", "Buffer.release"}
       /\ \/ bufs[loc'.target].state = "released"
          \/ ctxs[bufs[loc'.target].ctx].state = "destroyed"
    \/ /\ loc'.call \in {"Context.destroy", "Buffer.create", "Buffer.from_bytes"}
       /\ ctxs[loc'.target].state = "destroyed"

\* C4: in no sequence of create/from_bytes/append/length/data/release/destroy
\* calls is a dead handle silently operated on: a call on a released Buffer,
\* on a Buffer whose Context is destroyed or on a destroyed Context raises
\* the defined error, returns nothing and changes no Context and no Buffer.
C4_DeadHandleDetected ==
    [][CallOnDeadHandle =>
          /\ err' = "UseAfterRelease"
          /\ loc'.ret = NoneValue
          /\ ctxs' = ctxs
          /\ bufs' = bufs]_vars

\* C4 witness: a Buffer holding bytes is released a second time while its
\* Context is live; the call raised and the Buffer counts one release.
C4_Witness ==
    /\ loc.caller = "client"
    /\ loc.call = "Buffer.release"
    /\ err = "UseAfterRelease"
    /\ bufs[loc.target].state = "released"
    /\ bufs[loc.target].releases = 1
    /\ bufs[loc.target].data # <<>>
    /\ ctxs[bufs[loc.target].ctx].state = "live"

\* C4, the other two cases reached: a Buffer read after its Context was
\* destroyed, and a Context destroyed twice.
C4_WitnessAfterContext ==
    /\ loc.caller = "client"
    /\ loc.call = "Buffer.data"
    /\ err = "UseAfterRelease"
    /\ bufs[loc.target].state = "live"
    /\ ctxs[bufs[loc.target].ctx].state = "destroyed"

C4_WitnessContextTwice ==
    /\ loc.caller = "client"
    /\ loc.call = "Context.destroy"
    /\ err = "UseAfterRelease"
    /\ ctxs[loc.target].destroys = 1

(***************************************************************************)
(* run_benchmarks, the Buffer section: the caller of the resource          *)
(* interface.  benchmark(func, ...) calls func MaxIter times; each call of *)
(* a closure is two steps, the allocation and the drop().                  *)
(***************************************************************************)
\* data_1kb = b"x" * 1024, cut to MaxLen bytes
Data1kb == [i \in 1..MaxLen |-> 120]

InitBench ==
    /\ GeomDefault
    /\ ctxs = <<>>
    /\ bufs = <<>>
    /\ docs = <<>>
    /\ pc = "import"
    /\ err = "ok"
    /\ loc = [caller |-> "run_benchmarks", ctx |-> 0, buf |-> 0, calls |-> 0,
              ret |-> NoneValue]

\* from micropdf.context import Context; from micropdf.buffer import Buffer
BenchImport ==
    /\ pc = "import"
    /\ pc' = "Context()"
    /\ UNCHANGED <<ctxs, bufs, docs, err, loc>>
    /\ UNCHANGED geomVars

\* except ImportError: the section is skipped
BenchImportError ==
    /\ pc = "import"
    /\ pc' = "done"
    /\ err' = "ImportError"
    /\ UNCHANGED <<ctxs, bufs, docs, loc>>
    /\ UNCHANGED geomVars

\* ctx = Context()
BenchContext ==
    /\ pc = "Context()"
    /\ ContextCreate
    /\ loc' = [loc EXCEPT !.ctx = Len(ctxs) + 1]
    /\ pc' = "create_buffer"
    /\ UNCHANGED geomVars

\* The benchmark that follows `name`, entered when its MaxIter calls are done.
BenchAfter(name) ==
    CASE name = "create_buffer" -> "create_buffer_capacity"
      [] name = "create_buffer_capacity" -> "buffer_from_bytes"
      [] name = "buffer_from_bytes" -> "buf = Buffer.from_bytes"
      [] name = "buf.length()" -> "buf.data()"
      [] name = "buf.data()" -> "buf.drop()"

\* benchmark(): the loop is over, the next statement runs
BenchLoopDone ==
    /\ pc \in {"create_buffer", "create_buffer_capacity", "buffer_from_bytes",
               "buf.length()", "buf.data()"}
    /\ loc.calls = MaxIter
    /\ pc' = BenchAfter(pc)
    /\ loc' = [loc EXCEPT !.calls = 0]
    /\ UNCHANGED <<ctxs, bufs, docs, err>>
    /\ UNCHANGED geomVars

\* create_buffer: buf = Buffer(ctx, 0)
BenchCreateBuffer ==
    /\ pc = "create_buffer"
    /\ loc.calls < MaxIter
    /\ BufferCreate(loc.ctx, 0)
    /\ loc' = [loc EXCEPT !.buf = Len(bufs) + 1]
    /\ pc' = "create_buffer: buf.drop()"
    /\ UNCHANGED geomVars

\* create_buffer_capacity: buf = Buffer(ctx, 1024)
BenchCreateBufferCapacity ==
    /\ pc = "create_buffer_capacity"
    /\ loc.calls < MaxIter
    /\ BufferCreate(loc.ctx, 1024)
    /\ loc' = [loc EXCEPT !.buf = Len(bufs) + 1]
    /\ pc' = "create_buffer_capacity: buf.drop()"
    /\ UNCHANGED geomVars

\* buffer_from_bytes: buf = Buffer.from_bytes(ctx, data_1kb)
BenchBufferFromBytes ==
    /\ pc = "buffer_from_bytes"
    /\ loc.calls < MaxIter
    /\ BufferFromBytes(loc.ctx, Data1kb)
    /\ loc' = [loc EXCEPT !.buf = Len(bufs) + 1]
    /\ pc' = "buffer_from_bytes: buf.drop()"
    /\ UNCHANGED geomVars

\* buf.drop() at the end of each of the three closures
BenchClosureDrop ==
    /\ pc \in {"create_buffer: buf.drop()", "create_buffer_capacity: buf.drop()",
               "buffer_from_bytes: buf.drop()"}
    /\ BufferRelease(loc.buf)
    /\ loc' = [loc EXCEPT !.calls = @ + 1]
    /\ pc' = CASE pc = "create_buffer: buf.drop()" -> "create_buffer"
               [] pc = "create_buffer_capacity: buf.drop()" -> "create_buffer_capacity"
               [] pc = "buffer_from_bytes: buf.drop()" -> "buffer_from_bytes"
    /\ UNCHANGED geomVars

\* buf = Buffer.from_bytes(ctx, data_1kb)
BenchKeepBuffer ==
    /\ pc = "buf = Buffer.from_bytes"
    /\ BufferFromBytes(loc.ctx, Data1kb)
    /\ loc' = [loc EXCEPT !.buf = Len(bufs) + 1]
    /\ pc' = "buf.length()"
    /\ UNCHANGED geomVars

\* lambda: buf.length()
BenchLength ==
    /\ pc = "buf.length()"
    /\ loc.calls < MaxIter
    /\ BufferRead(loc.buf)
    /\ loc' = [loc EXCEPT !.calls = @ + 1, !.ret = BufferLength(loc.buf)]
    /\ UNCHANGED pc
    /\ UNCHANGED geomVars

\* lambda: buf.data()
BenchData ==
    /\ pc = "buf.data()"
    /\ loc.calls < MaxIter
    /\ BufferRead(loc.buf)
    /\ loc' = [loc EXCEPT !.calls = @ + 1, !.ret = BufferData(loc.buf)]
    /\ UNCHANGED pc
    /\ UNCHANGED geomVars

\* buf.drop(), the last statement of the section; the summary that follows
\* touches no resource and run_benchmarks returns.
BenchDrop ==
    /\ pc = "buf.drop()"
    /\ BufferRelease(loc.buf)
    /\ pc' = "done"
    /\ UNCHANGED loc
    /\ UNCHANGED geomVars

NextBench ==
    \/ BenchImport
    \/ BenchImportError
    \/ BenchContext
    \/ BenchLoopDone
    \/ BenchCreateBuffer
    \/ BenchCreateBufferCapacity
    \/ BenchBufferFromBytes
    \/ BenchClosureDrop
    \/ BenchKeepBuffer
    \/ BenchLength
    \/ BenchData
    \/ BenchDrop

SpecBench == InitBench /\ [][NextBench]_vars

\* C3: every Context and Buffer allocation has exactly one matching release:
\* each Buffer is dropped exactly once while its Context is live, and when
\* run_benchmarks finishes the Context has been destroyed exactly once and no
\* Context or Buffer remains unreleased.
C3_EveryAllocationReleased ==
    /\ \A b \in 1..Len(bufs) :
          /\ bufs[b].releases <= 1
          /\ bufs[b].state = "released" => bufs[b].releases = 1
    /\ err \in {"ok", "ImportError"}
    /\ pc = "done" =>
          /\ \A b \in 1..Len(bufs) : bufs[b].state = "released"
          /\ \A c \in 1..Len(ctxs) :
                ctxs[c].state = "destroyed" /\ ctxs[c].destroys = 1

\* C3, the part the code keeps: every Buffer of the section is dropped
\* exactly once, while the Context is live, before run_benchmarks finishes.
C3_BuffersReleased ==
    /\ \A b \in 1..Len(bufs) :
          /\ bufs[b].releases <= 1
          /\ bufs[b].state = "released" => bufs[b].releases = 1
    /\ err \in {"ok", "ImportError"}
    /\ pc = "done" => \A b \in 1..Len(bufs) : bufs[b].state = "released"

(***************************************************************************)
(* merge_pdfs(input_paths, output_path, ctx=None), as the tests call it.   *)
(* The file system is an input: which paths open as documents, and whether *)
(* the output can be written.                                              *)
(***************************************************************************)
Paths == {"doc1.pdf", "nonexistent1.pdf", "nonexistent2.pdf"}

InputLists == UNION { [1..n -> Paths] : n \in 0..MaxInputs }

InitMerge ==
    /\ GeomDefault
    /\ ctxs = <<>>
    /\ bufs = <<>>
    /\ docs = <<>>
    /\ pc = "test"
    /\ err = "ok"
    /\ \E inputs \in InputLists, output \in {"", "output.pdf"},
          withCtx \in BOOLEAN, openable \in SUBSET Paths, writable \in BOOLEAN :
          loc = [caller |-> "test", inputs |-> inputs, output |-> output,
                 withCtx |-> withCtx, openable |-> openable, writable |-> writable,
                 ctx |-> 0, mctx |-> 0, own |-> FALSE, i |-> 1,
                 pending |-> "ok", result |-> "none", written |-> FALSE]

\* The test: ctx = Context() when it passes one, then the call of merge_pdfs.
TestCall ==
    /\ pc = "test"
    /\ IF loc.withCtx
       THEN /\ ContextCreate
            /\ loc' = [loc EXCEPT !.ctx = Len(ctxs) + 1]
       ELSE UNCHANGED <<ctxs, bufs, docs, err, loc>>
    /\ pc' = "merge_pdfs"
    /\ UNCHANGED geomVars

\* A plausible slip: the output path is not validated.
MergeValidateInputsOnly ==
    /\ pc = "merge_pdfs"
    /\ IF loc.inputs = <<>>
       THEN /\ loc' = [loc EXCEPT !.result = "ValueError: Input PDF paths cannot be empty"]
            /\ pc' = "raised"
       ELSE /\ pc' = "merge: context"
            /\ UNCHANGED loc
    /\ UNCHANGED <<ctxs, bufs, docs, err>>
    /\ UNCHANGED geomVars

\* merge_pdfs: the arguments are validated before anything else.
MergeValidate ==
    /\ pc = "merge_pdfs"
    /\ IF loc.inputs = <<>>
       THEN /\ loc' = [loc EXCEPT !.result = "ValueError: Input PDF paths cannot be empty"]
            /\ pc' = "raised"
       ELSE IF loc.output = ""
       THEN /\ loc' = [loc EXCEPT !.result = "ValueError: Output path cannot be empty"]
            /\ pc' = "raised"
       ELSE /\ pc' = "merge: context"
            /\ UNCHANGED loc
    /\ UNCHANGED <<ctxs, bufs, docs, err>>
    /\ UNCHANGED geomVars

\* merge_pdfs: without a ctx, a private Context is created.
MergeContext ==
    /\ pc = "merge: context"
    /\ IF loc.ctx = 0
       THEN /\ ContextCreate
            /\ loc' = [loc EXCEPT !.mctx = Len(ctxs) + 1, !.own = TRUE]
       ELSE /\ loc' = [loc EXCEPT !.mctx = loc.ctx, !.own = FALSE]
            /\ UNCHANGED <<ctxs, bufs, docs, err>>
    /\ pc' = "merge: open"
    /\ UNCHANGED geomVars

\* A plausible slip: a failed open raises at once, nothing is released.
MergeOpenNoCleanup ==
    /\ pc = "merge: open"
    /\ loc.i <= Len(loc.inputs)
    /\ IF loc.inputs[loc.i] \in loc.openable /\ ContextUsable(loc.mctx)
       THEN /\ docs' = Append(docs, [state |-> "open", ctx |-> loc.mctx,
                                     path |-> loc.inputs[loc.i], closes |-> 0])
            /\ err' = "ok"
            /\ loc' = [loc EXCEPT !.i = @ + 1]
            /\ UNCHANGED pc
       ELSE /\ err' = "MicroPDFError"
            /\ loc' = [loc EXCEPT !.result = "MicroPDFError"]
            /\ pc' = "raised"
            /\ UNCHANGED docs
    /\ UNCHANGED <<ctxs, bufs>>
    /\ UNCHANGED geomVars

\* merge_pdfs: the next input path is opened as a document of the Context.
MergeOpen ==
    /\ pc = "merge: open"
    /\ loc.i <= Len(loc.inputs)
    /\ IF loc.inputs[loc.i] \in loc.openable /\ ContextUsable(loc.mctx)
       THEN /\ docs' = Append(docs, [state |-> "open", ctx |-> loc.mctx,
                                     path |-> loc.inputs[loc.i], closes |-> 0])
            /\ err' = "ok"
            /\ loc' = [loc EXCEPT !.i = @ + 1]
            /\ UNCHANGED pc
       ELSE /\ err' = "MicroPDFError"
            /\ loc' = [loc EXCEPT !.pending = "MicroPDFError"]
            /\ pc' = "merge: release"
            /\ UNCHANGED docs
    /\ UNCHANGED <<ctxs, bufs>>
    /\ UNCHANGED geomVars

\* merge_pdfs: every input is open; the pages are written to output_path.
MergeWrite ==
    /\ pc = "merge: open"
    /\ loc.i > Len(loc.inputs)
    /\ IF loc.writable
       THEN /\ err' = "ok"
            /\ loc' = [loc EXCEPT !.written = TRUE]
       ELSE /\ err' = "MicroPDFError"
            /\ loc' = [loc EXCEPT !.pending = "MicroPDFError"]
    /\ pc' = "merge: release"
    /\ UNCHANGED <<ctxs, bufs, docs>>
    /\ UNCHANGED geomVars

\* The documents still open.
OpenDocuments == { d \in 1..Len(docs) : docs[d].state = "open" }

\* merge_pdfs, on the way out: a document it opened is released.
MergeCloseDocument ==
    /\ pc = "merge: release"
    /\ OpenDocuments # {}
    /\ LET d == CHOOSE x \in OpenDocuments : \A y \in OpenDocuments : y <= x
       IN  docs' = [docs EXCEPT ![d].state = "closed", ![d].closes = @ + 1]
    /\ UNCHANGED <<ctxs, bufs, err, pc, loc>>
    /\ UNCHANGED geomVars

\* A plausible slip: the Context is destroyed on the way out, whoever made it.
MergeLeaveDestroysAny ==
    /\ pc = "merge: release"
    /\ OpenDocuments = {}
    /\ ContextDestroy(loc.mctx)
    /\ loc' = [loc EXCEPT !.result = loc.pending]
    /\ pc' = IF loc.pending = "ok" THEN "returned" ELSE "raised"
    /\ UNCHANGED geomVars

\* merge_pdfs, on the way out: the private Context is destroyed, a ctx of the
\* caller is left alone; then the call returns or the error surfaces.
MergeLeave ==
    /\ pc = "merge: release"
    /\ OpenDocuments = {}
    /\ IF loc.own
       THEN ContextDestroy(loc.mctx)
       ELSE UNCHANGED <<ctxs, bufs, docs, err>>
    /\ loc' = [loc EXCEPT !.result = loc.pending]
    /\ pc' = IF loc.pending = "ok" THEN "returned" ELSE "raised"
    /\ UNCHANGED geomVars

\* The test, after the call: finally ctx.drop() when it passed a ctx.
TestFinally ==
    /\ pc \in {"returned", "raised"}
    /\ IF loc.withCtx
       THEN ContextDestroy(loc.ctx)
       ELSE UNCHANGED <<ctxs, bufs, docs, err>>
    /\ pc' = "done"
    /\ UNCHANGED loc
    /\ UNCHANGED geomVars

NextMerge ==
    \/ TestCall
    \/ MergeValidate
    \/ MergeContext
    \/ MergeOpen
    \/ MergeWrite
    \/ MergeCloseDocument
    \/ MergeLeave
    \/ TestFinally

SpecMerge == InitMerge /\ [][NextMerge]_vars

\* C1: merge_pdfs fails with ValueError whenever input_paths is empty or
\* output_path is empty, and before any I/O or allocation: no Context has
\* been created by the call, no document opened and no output written.
C1_InvalidArgumentBeforeAllocation ==
    (loc.inputs = <<>> \/ loc.output = "")
        => /\ pc \in {"test", "merge_pdfs", "raised", "done"}
           /\ pc \in {"raised", "done"}
                => loc.result \in {"ValueError: Input PDF paths cannot be empty",
                                   "ValueError: Output path cannot be empty"}
           /\ Len(ctxs) <= (IF loc.withCtx THEN 1 ELSE 0)
           /\ docs = <<>>
           /\ ~loc.written

\* C1 witness: merge_pdfs(["doc1.pdf"], "") has raised, with no ctx passed,
\* an openable input and a writable output.
C1_Witness ==
    /\ pc = "raised"
    /\ loc.inputs = <<"doc1.pdf">> /\ loc.output = ""
    /\ ~loc.withCtx /\ "doc1.pdf" \in loc.openable /\ loc.writable
    /\ loc.result = "ValueError: Output path cannot be empty"
    /\ ctxs = <<>>

\* Every Context, and every document, has been released exactly once.
AllReleased ==
    /\ \A c \in 1..Len(ctxs) : ctxs[c].state = "destroyed" /\ ctxs[c].destroys = 1
    /\ \A d \in 1..Len(docs) : docs[d].state = "closed" /\ docs[d].closes = 1

\* C2: called without a ctx, merge_pdfs fails with MicroPDFError when an
\* input cannot be opened or the output cannot be written, and on every exit
\* path, success or failure, the private Context and every document opened
\* have been released when the call returns or the error surfaces.
C2_PrivateContextReleased ==
    (~loc.withCtx /\ pc \in {"returned", "raised", "done"})
        => /\ AllReleased
           /\ (loc.inputs # <<>> /\ loc.output # "") => Len(ctxs) = 1
           /\ ( /\ loc.inputs # <<>> /\ loc.output # ""
                /\ \/ \E i \in 1..Len(loc.inputs) : loc.inputs[i] \notin loc.openable
                   \/ ~loc.writable )
                => loc.result = "MicroPDFError"

\* C2 witness: the first input was opened, the second could not be; the
\* error has surfaced with the document and the private Context released.
C2_Witness ==
    /\ pc = "raised"
    /\ ~loc.withCtx
    /\ loc.result = "MicroPDFError"
    /\ loc.inputs = <<"doc1.pdf", "nonexistent1.pdf">>
    /\ Len(docs) = 1 /\ docs[1].closes = 1
    /\ Len(ctxs) = 1 /\ ctxs[1].destroys = 1

\* C16: called with a ctx of the caller, merge_pdfs never destroys that ctx,
\* on success or on failure: when the call has returned or raised the ctx is
\* live and no document the call opened under it is left unreleased, and the
\* caller's ctx.drop() afterwards succeeds and is the one and only release of
\* that Context.
C16_CallerContextKept ==
    (loc.caller = "test" /\ loc.withCtx /\ pc # "test")
        => /\ Len(ctxs) = 1 /\ loc.ctx = 1
           /\ pc # "done" => ctxs[1].state = "live" /\ ctxs[1].destroys = 0
           /\ pc \in {"returned", "raised", "done"}
                => \A d \in 1..Len(docs) :
                      /\ docs[d].ctx = 1
                      /\ docs[d].state = "closed" /\ docs[d].closes = 1
           /\ pc = "done"
                => /\ ctxs[1].state = "destroyed" /\ ctxs[1].destroys = 1
                   /\ err = "ok"

\* C16 witness: merge_pdfs(["nonexistent1.pdf", "nonexistent2.pdf"],
\* "output.pdf", ctx) has raised MicroPDFError, as in the test, and the ctx
\* is live.
C16_Witness ==
    /\ pc = "raised"
    /\ loc.withCtx
    /\ loc.inputs = <<"nonexistent1.pdf", "nonexistent2.pdf">>
    /\ loc.result = "MicroPDFError"
    /\ ctxs[loc.ctx].state = "live"

\* C16, the other exits reached: a document was opened under the caller's ctx
\* before the failure, and the caller has dropped the ctx after a success.
C16_WitnessDocumentOpened ==
    /\ pc = "raised" /\ loc.withCtx
    /\ loc.result = "MicroPDFError"
    /\ Len(docs) >= 1 /\ docs[1].ctx = loc.ctx /\ docs[1].closes = 1
    /\ ctxs[loc.ctx].state = "live"

C16_WitnessDropped ==
    /\ pc = "done" /\ loc.withCtx
    /\ loc.result = "ok" /\ loc.written
    /\ ctxs[loc.ctx].destroys = 1 /\ err = "ok"

(***************************************************************************)
(* Rect.union, and the bounding box folded with it (bbox_calc_10_items).   *)
(***************************************************************************)
\* 1e30, the coordinate of the inverted sentinel, cut to what the integers
\* here hold; as in the code it lies far beyond every item coordinate.
Big == 1000000

\* range(10)
RangeItems == 10

\* bbox = Rect(1e30, 1e30, -1e30, -1e30)
Sentinel == Rect(Float(Big), Float(Big), Float(-Big), Float(-Big))

\* item = Rect(i * 10, i * 10, 100 + i * 10, 20 + i * 10) for i in range(10)
CodeItems ==
    [k \in 1..RangeItems |->
        Rect(Float((k - 1) * 10), Float((k - 1) * 10),
             Float(100 + (k - 1) * 10), Float(20 + (k - 1) * 10))]

\* Normalized rects that are folded.
ItemRects ==
    { Rect(Float(t[1]), Float(t[2]), Float(t[3]), Float(t[4])) :
        t \in { q \in (0..MaxItemCoord) \X (0..MaxItemCoord)
                      \X (0..MaxItemCoord) \X (0..MaxItemCoord) :
                  q[1] <= q[3] /\ q[2] <= q[4] } }

\* Any non-empty sequence of them, and the sequence of the code.
ItemLists == UNION { [1..n -> ItemRects] : n \in 1..MaxItems } \cup {CodeItems}

\* r1 = Rect(0, 0, 100, 100); r2 = Rect(50, 50, 150, 150)
BenchRects == << Rect(Float(0), Float(0), Float(100), Float(100)),
                 Rect(Float(50), Float(50), Float(150), Float(150)) >>

\* Either two rects to unite, or a list of items to fold.
InitUnion ==
    /\ m = MatrixIdentity
    /\ o = MatrixIdentity
    /\ p = Point(Float(0), Float(0))
    /\ out = NoneValue
    /\ ctxs = <<>> /\ bufs = <<>> /\ docs = <<>> /\ err = "ok"
    /\ \/ /\ \E pair \in (Rects \X Rects) \cup {BenchRects} :
                r = pair[1] /\ s = pair[2]
          /\ op = "init"
          /\ pc = "idle"
          /\ loc = [caller |-> "none"]
       \/ /\ r = Sentinel
          /\ s = Sentinel
          /\ op = "bbox = Rect(1e30, 1e30, -1e30, -1e30)"
          /\ pc = "for i in range"
          /\ \E items \in ItemLists :
                loc = [caller |-> "bbox_calc_10_items", items |-> items, i |-> 1]

\* r.union(s)
DoUnion ==
    /\ op = "init"
    /\ out' = Some("Rect", RectUnion(r, s))
    /\ op' = "r.union(s)"
    /\ UNCHANGED <<m, o, p, r, s>>
    /\ UNCHANGED resVars

\* bbox_calc_10_items, one turn of the loop: bbox = bbox.union(item)
BBoxUnionItem ==
    /\ pc = "for i in range"
    /\ loc.i <= Len(loc.items)
    /\ s' = loc.items[loc.i]
    /\ r' = RectUnion(r, loc.items[loc.i])
    /\ out' = Some("Rect", RectUnion(r, loc.items[loc.i]))
    /\ op' = "bbox = bbox.union(item)"
    /\ loc' = [loc EXCEPT !.i = @ + 1]
    /\ UNCHANGED <<m, o, p>>
    /\ UNCHANGED <<ctxs, bufs, docs, pc, err>>

\* bbox_calc_10_items: the loop is over
BBoxDone ==
    /\ pc = "for i in range"
    /\ loc.i > Len(loc.items)
    /\ pc' = "bbox done"
    /\ UNCHANGED <<ctxs, bufs, docs, err, loc>>
    /\ UNCHANGED geomVars

NextUnion ==
    \/ DoUnion
    \/ BBoxUnionItem
    \/ BBoxDone

SpecUnion == InitUnion /\ [][NextUnion]_vars

\* v is the smaller (the larger) of x and y.
IsSmaller(v, x, y) == v \in {x, y} /\ v[1] <= x[1] /\ v[1] <= y[1]

IsLarger(v, x, y) == v \in {x, y} /\ v[1] >= x[1] /\ v[1] >= y[1]

\* box is the bounding box of the rects of the non-empty sequence items.
IsBoundingBoxOfRects(box, items) ==
    /\ \A k \in 1..Len(items) :
          /\ box.x0[1] <= items[k].x0[1] /\ box.y0[1] <= items[k].y0[1]
          /\ box.x1[1] >= items[k].x1[1] /\ box.y1[1] >= items[k].y1[1]
    /\ \E k \in 1..Len(items) : box.x0 = items[k].x0
    /\ \E k \in 1..Len(items) : box.y0 = items[k].y0
    /\ \E k \in 1..Len(items) : box.x1 = items[k].x1
    /\ \E k \in 1..Len(items) : box.y1 = items[k].y1

\* C11: for all rects r and s, r.union(s) has the coordinates (min(r.x0,s.x0),
\* min(r.y0,s.y0), max(r.x1,s.x1), max(r.y1,s.y1)); and folding union over a
\* non-empty sequence of normalized rects, starting from the inverted
\* sentinel, yields exactly their bounding box.
C11_UnionIsMinMax ==
    /\ op = "r.union(s)"
         => /\ IsSmaller(out.val.x0, r.x0, s.x0) /\ IsSmaller(out.val.y0, r.y0, s.y0)
            /\ IsLarger(out.val.x1, r.x1, s.x1) /\ IsLarger(out.val.y1, r.y1, s.y1)
    /\ (op = "r.union(s)" /\ <<r, s>> = BenchRects)
         => out.val = Rect(Float(0), Float(0), Float(150), Float(150))
    /\ pc = "bbox done" => IsBoundingBoxOfRects(r, loc.items)

\* C11 witness: the ten items of the code have been folded from the sentinel;
\* the box is (0, 0, 190, 110).
C11_Witness ==
    /\ pc = "bbox done"
    /\ loc.items = CodeItems
    /\ r = Rect(Float(0), Float(0), Float(190), Float(110))

\* C11, the example reached: Rect(0,0,100,100).union(Rect(50,50,150,150)).
C11_WitnessExample ==
    /\ op = "r.union(s)"
    /\ <<r, s>> = BenchRects
    /\ out.val = Rect(Float(0), Float(0), Float(150), Float(150))

(***************************************************************************)
(* Quad (benchmark.py): four corner points.                                *)
(***************************************************************************)
\* Quad.__init__
Quad(ul, ur, ll, lr) == [ul |-> ul, ur |-> ur, ll |-> ll, lr |-> lr]

\* A plausible slip: ur and ll change places.
QuadFromRectSwapped(rc) ==
    Quad(Point(rc.x0, rc.y0), Point(rc.x0, rc.y1),
         Point(rc.x1, rc.y0), Point(rc.x1, rc.y1))

\* Quad.from_rect
QuadFromRect(rc) ==
    Quad(Point(rc.x0, rc.y0), Point(rc.x1, rc.y0),
         Point(rc.x0, rc.y1), Point(rc.x1, rc.y1))

\* Quad.to_rect
QuadToRect(q) ==
    LET xs == <<q.ul.x, q.ur.x, q.ll.x, q.lr.x>>
        ys == <<q.ul.y, q.ur.y, q.ll.y, q.lr.y>>
    IN  Rect(FMin(xs), FMin(ys), FMax(xs), FMax(ys))

\* Quad.transform
QuadTransform(q, mt) ==
    Quad(PointTransform(q.ul, mt), PointTransform(q.ur, mt),
         PointTransform(q.ll, mt), PointTransform(q.lr, mt))

\* The matrices a quad is transformed by.
QuadMatrices == {MatrixIdentity} \cup DenseMatrices

\* A rect, normalized or not, and no quad yet.
InitQuad ==
    /\ m \in QuadMatrices
    /\ o = MatrixIdentity
    /\ p = Point(Float(0), Float(0))
    /\ r \in Rects \cup NormRects
    /\ s = Rect(Float(0), Float(0), Float(0), Float(0))
    /\ op = "init"
    /\ out = NoneValue
    /\ ctxs = <<>> /\ bufs = <<>> /\ docs = <<>> /\ err = "ok"
    /\ pc = "idle"
    /\ loc = [caller |-> "run_benchmarks", q |-> NoneValue]

\* q = Quad.from_rect(r)
DoQuadFromRect ==
    /\ loc.q = NoneValue
    /\ out' = Some("Quad", QuadFromRect(r))
    /\ loc' = [loc EXCEPT !.q = QuadFromRect(r)]
    /\ op' = "q = Quad.from_rect(r)"
    /\ UNCHANGED <<m, o, p, r, s>>
    /\ UNCHANGED <<ctxs, bufs, docs, pc, err>>

\* q.to_rect()
DoQuadToRect ==
    /\ loc.q # NoneValue
    /\ out' = Some("Rect", QuadToRect(loc.q))
    /\ op' = "q.to_rect()"
    /\ UNCHANGED <<m, o, p, r, s>>
    /\ UNCHANGED resVars

\* q.transform(m)
DoQuadTransform ==
    /\ loc.q # NoneValue
    /\ out' = Some("Quad", QuadTransform(loc.q, m))
    /\ op' = "q.transform(m)"
    /\ UNCHANGED <<m, o, p, r, s>>
    /\ UNCHANGED resVars

NextQuad ==
    \/ DoQuadFromRect
    \/ DoQuadToRect
    \/ DoQuadTransform

SpecQuad == InitQuad /\ [][NextQuad]_vars

\* x0 <= x1 and y0 <= y1
IsNormalized(rc) == rc.x0[1] * rc.x1[2] <= rc.x1[1] * rc.x0[2]
                    /\ rc.y0[1] * rc.y1[2] <= rc.y1[1] * rc.y0[2]

\* C12: Quad.from_rect(r) places ul = (x0, y0), ur = (x1, y0), ll = (x0, y1),
\* lr = (x1, y1), and for every normalized rect r, Quad.from_rect(r).to_rect()
\* has the same four coordinates as r.
C12_QuadRoundTrip ==
    /\ loc.caller = "run_benchmarks" /\ loc.q # NoneValue
         => /\ loc.q.ul = Point(r.x0, r.y0) /\ loc.q.ur = Point(r.x1, r.y0)
            /\ loc.q.ll = Point(r.x0, r.y1) /\ loc.q.lr = Point(r.x1, r.y1)
    /\ (op = "q.to_rect()" /\ IsNormalized(r))
         => /\ out.val.x0 = r.x0 /\ out.val.y0 = r.y0
            /\ out.val.x1 = r.x1 /\ out.val.y1 = r.y1

\* C12 witness: a normalized rect with four distinct corners has gone to a
\* quad and back.
C12_Witness ==
    /\ op = "q.to_rect()"
    /\ IsNormalized(r)
    /\ r.x0 # r.x1 /\ r.y0 # r.y1
    /\ out.val = r
    /\ loc.q.ur # loc.q.ll

\* Off the claim's precondition: a rect that is not normalized does not come
\* back, to_rect normalizes it.
C12_WitnessDenormalized ==
    /\ op = "q.to_rect()"
    /\ ~IsNormalized(r)
    /\ out.val # r

(***************************************************************************)
(* The pure-Python Buffer of cross_language_overhead.py.  Its _data is a   *)
(* bytearray, an object of its own: heap holds the byte objects by         *)
(* address, so that two names for one object and two objects of equal      *)
(* contents are different states.                                          *)
(***************************************************************************)
\* buffer_append_64b: Buffer(64)
BenchCapacity == 64

\* chunk = bytes(64)
BenchChunkLen == 64

\* bytes(n) and bytearray(n): n zero bytes
ZeroBytes(n) == [i \in 1..n |-> 0]

\* The byte values drawn: 0 and "x".
PureByteValues == {0, 120}

\* The byte sequences passed to from_slice and append_data.
PureData ==
    UNION { [1..n -> PureByteValues] : n \in 0..MaxData } \cup {ZeroBytes(BenchChunkLen)}

\* The capacities passed to Buffer(capacity).
Capacities == (0..MaxCap) \cup {BenchCapacity}

\* A plausible slip: the buffer is sized for data and data is never copied in.
PureBufferFromSliceSizedOnly(heap, data) ==
    [heap |-> Append(heap, ZeroBytes(Len(heap[data]))),
     buf |-> [_data |-> Len(heap) + 1]]

\* Buffer.__init__: self._data = bytearray(capacity)
PureBufferInit(heap, capacity) ==
    [heap |-> Append(heap, ZeroBytes(capacity)),
     buf |-> [_data |-> Len(heap) + 1]]

\* Buffer.from_slice: buf = Buffer(len(data)); buf._data[:] = data
PureBufferFromSlice(heap, data) ==
    LET made == PureBufferInit(heap, Len(heap[data]))
    IN  [heap |-> [made.heap EXCEPT ![made.buf._data] =
                      [i \in 1..Len(heap[data]) |-> heap[data][i]]],
         buf |-> made.buf]

\* Buffer.append_data: self._data.extend(data)
PureBufferAppendData(heap, buf, data) ==
    [heap EXCEPT ![buf._data] = @ \o data]

\* One bytes object d, at address 1, and no Buffer yet.  d0 remembers what d
\* held, appended what has been appended so far.
InitPureBuffer ==
    /\ GeomDefault
    /\ ctxs = <<>> /\ bufs = <<>> /\ docs = <<>> /\ err = "ok"
    /\ pc = "idle"
    /\ \E d \in PureData :
          loc = [caller |-> "pure", heap |-> <<d>>, data |-> 1, d0 |-> d,
                 buf |-> NoneValue, made |-> "none", capacity |-> 0,
                 appended |-> <<>>, n |-> 0]

\* buf = Buffer(capacity)
PureCreate ==
    /\ loc.caller = "pure" /\ loc.buf = NoneValue
    /\ \E capacity \in Capacities :
          LET made == PureBufferInit(loc.heap, capacity)
          IN  loc' = [loc EXCEPT !.heap = made.heap, !.buf = made.buf,
                                 !.made = "Buffer(capacity)",
                                 !.capacity = capacity]
    /\ UNCHANGED <<ctxs, bufs, docs, pc, err>>
    /\ UNCHANGED geomVars

\* buf = Buffer.from_slice(d)
PureFromSlice ==
    /\ loc.caller = "pure" /\ loc.buf = NoneValue
    /\ LET made == PureBufferFromSlice(loc.heap, loc.data)
       IN  loc' = [loc EXCEPT !.heap = made.heap, !.buf = made.buf,
                              !.made = "Buffer.from_slice(d)",
                              !.capacity = Len(loc.heap[loc.data])]
    /\ UNCHANGED <<ctxs, bufs, docs, pc, err>>
    /\ UNCHANGED geomVars

\* buf.append_data(chunk)
PureAppendData ==
    /\ loc.caller = "pure" /\ loc.buf # NoneValue
    /\ loc.n < MaxAppends
    /\ \E chunk \in PureData :
          loc' = [loc EXCEPT !.heap = PureBufferAppendData(loc.heap, loc.buf, chunk),
                             !.appended = @ \o chunk,
                             !.n = @ + 1]
    /\ UNCHANGED <<ctxs, bufs, docs, pc, err>>
    /\ UNCHANGED geomVars

NextPureBuffer ==
    \/ PureCreate
    \/ PureFromSlice
    \/ PureAppendData

SpecPureBuffer == InitPureBuffer /\ [][NextPureBuffer]_vars

\* The bytes the Buffer holds.
PureContents == loc.heap[loc.buf._data]

\* C13: for all non-empty byte sequences d, the buffer built from d by
\* from_slice has length len(d) and contents d byte for byte, and is a copy:
\* the buffer's bytes are an object of their own, and appends to the buffer
\* leave d as it was.
C13_FromSliceCopies ==
    (loc.caller = "pure" /\ loc.made = "Buffer.from_slice(d)" /\ loc.d0 # <<>>)
      => /\ loc.n = 0 => /\ Len(PureContents) = Len(loc.d0)
                         /\ \A i \in 1..Len(loc.d0) : PureContents[i] = loc.d0[i]
         /\ loc.buf._data # loc.data
         /\ loc.heap[loc.data] = loc.d0
         /\ PureContents = loc.d0 \o loc.appended

\* C13 witness: a buffer made from two different bytes, then appended to; d
\* is as it was and the buffer is longer.
C13_Witness ==
    /\ loc.caller = "pure" /\ loc.made = "Buffer.from_slice(d)"
    /\ loc.d0 = <<120, 0>>
    /\ loc.n > 0 /\ loc.appended # <<>>
    /\ loc.heap[loc.data] = <<120, 0>>
    /\ Len(PureContents) > 2

\* C15: the capacity passed at creation is a reservation, not content: a
\* buffer created with any capacity n >= 0 has length 0, and after appending
\* d1..dk in order its contents are exactly d1 ++ ... ++ dk and its length
\* len(d1) + ... + len(dk).
C15_CapacityIsReservation ==
    (loc.caller = "pure" /\ loc.made = "Buffer(capacity)")
      => /\ PureContents = loc.appended
         /\ Len(PureContents) = Len(loc.appended)

\* C15, what the code does instead: the buffer holds capacity zero bytes and
\* then what was appended.
C15_CapacityIsContent ==
    (loc.caller = "pure" /\ loc.made = "Buffer(capacity)")
      => PureContents = ZeroBytes(loc.capacity) \o loc.appended

\* C15, buffer_append_64b reached: Buffer(64), then 64 bytes appended, holds
\* 128 bytes.
C15_WitnessBench ==
    /\ loc.caller = "pure" /\ loc.made = "Buffer(capacity)"
    /\ loc.capacity = BenchCapacity
    /\ loc.n = 1 /\ loc.appended = ZeroBytes(BenchChunkLen)
    /\ Len(PureContents) = 128

(***************************************************************************)
(* Geometry objects with identity.  Every Point(...), Rect(...),           *)
(* Matrix(...) and Quad(...) the code evaluates makes a new object; heap   *)
(* holds the objects by address, a Quad holds the addresses of its four    *)
(* corner Points.  The operands of a call are any objects made so far,     *)
(* results of earlier calls included.                                      *)
(***************************************************************************)
\* The objects the calls start from: p, r1, r2 and two matrices.
FrameMatrices == {MatrixScale(Float(2), Float(2))} \cup DenseMatrices

FrameOthers == {MatrixIdentity, MatrixScale(Float(0), Float(1))}

InitFrame ==
    /\ GeomDefault
    /\ ctxs = <<>> /\ bufs = <<>> /\ docs = <<>> /\ err = "ok"
    /\ pc = "idle"
    /\ \E m0 \in FrameMatrices, o0 \in FrameOthers :
          LET heap0 == << Some("Point", Point(Float(50), Float(50))),
                          Some("Rect", BenchRects[1]),
                          Some("Rect", BenchRects[2]),
                          Some("Matrix", m0),
                          Some("Matrix", o0) >>
          IN  loc = [caller |-> "geometry", heap |-> heap0, heap0 |-> heap0,
                     calls |-> 0, last |-> "none", args |-> <<>>,
                     ret |-> NoneValue]

\* The objects of a class made so far.
Addr(kind) == { a \in 1..Len(loc.heap) : loc.heap[a].kind = kind }

\* The object at an address.
Obj(a) == loc.heap[a].val

\* What a call returns: a reference to an object, or a plain value.
Ref(a) == [kind |-> "ref", addr |-> a]

\* The caller after a call: the heap the call left, and what it returned.
AfterCall(name, args, heap, ret) ==
    /\ loc' = [loc EXCEPT !.heap = heap, !.calls = @ + 1, !.last = name,
                          !.args = args, !.ret = ret]
    /\ UNCHANGED <<ctxs, bufs, docs, pc, err>>
    /\ UNCHANGED geomVars

\* A call evaluates Kind(...): a new object, returned.
AfterConstruct(name, args, kind, val) ==
    AfterCall(name, args, Append(loc.heap, Some(kind, val)), Ref(Len(loc.heap) + 1))

CanCall == loc.caller = "geometry" /\ loc.calls < MaxCalls

\* p.transform(m)
CallPointTransform ==
    /\ CanCall
    /\ \E a \in Addr("Point"), b \in Addr("Matrix") :
          AfterConstruct("Point.transform", <<a, b>>, "Point",
                         PointTransform(Obj(a), Obj(b)))

\* r.contains(p)
CallRectContains ==
    /\ CanCall
    /\ \E a \in Addr("Rect"), b \in Addr("Point") :
          AfterCall("Rect.contains", <<a, b>>, loc.heap,
                    Some("bool", RectContains(Obj(a), Obj(b))))

\* A plausible slip: union grows the receiver in place and returns it.
CallRectUnionInPlace ==
    /\ CanCall
    /\ \E a \in Addr("Rect"), b \in Addr("Rect") :
          AfterCall("Rect.union", <<a, b>>,
                    [loc.heap EXCEPT ![a] = Some("Rect", RectUnion(Obj(a), Obj(b)))],
                    Ref(a))

\* r.union(s)
CallRectUnion ==
    /\ CanCall
    /\ \E a \in Addr("Rect"), b \in Addr("Rect") :
          AfterConstruct("Rect.union", <<a, b>>, "Rect", RectUnion(Obj(a), Obj(b)))

\* r.intersect(s)
CallRectIntersect ==
    /\ CanCall
    /\ \E a \in Addr("Rect"), b \in Addr("Rect") :
          AfterConstruct("Rect.intersect", <<a, b>>, "Rect",
                         RectIntersect(Obj(a), Obj(b)))

\* r.transform(m)
CallRectTransform ==
    /\ CanCall
    /\ \E a \in Addr("Rect"), b \in Addr("Matrix") :
          AfterConstruct("Rect.transform", <<a, b>>, "Rect",
                         RectTransformInline(Obj(a), Obj(b)))

\* m.concat(o)
CallMatrixConcat ==
    /\ CanCall
    /\ \E a \in Addr("Matrix"), b \in Addr("Matrix") :
          AfterConstruct("Matrix.concat", <<a, b>>, "Matrix",
                         MatrixConcat(Obj(a), Obj(b)))

\* m.invert(): None, or a new Matrix
CallMatrixInvert ==
    /\ CanCall
    /\ \E a \in Addr("Matrix") :
          IF MatrixInvert(Obj(a)) = NoneValue
          THEN AfterCall("Matrix.invert", <<a>>, loc.heap, NoneValue)
          ELSE AfterConstruct("Matrix.invert", <<a>>, "Matrix",
                              MatrixInvert(Obj(a)).val)

\* The four Points and the Quad that Quad(Point(...), ..., Point(...)) makes
\* on top of heap, q being the corners by value.
WithQuad(heap, q) ==
    heap \o << Some("Point", q.ul), Some("Point", q.ur),
               Some("Point", q.ll), Some("Point", q.lr),
               Some("Quad", Quad(Len(heap) + 1, Len(heap) + 2,
                                 Len(heap) + 3, Len(heap) + 4)) >>

\* The corners of the Quad at an address, by value.
QuadAt(a) ==
    Quad(Obj(Obj(a).ul), Obj(Obj(a).ur), Obj(Obj(a).ll), Obj(Obj(a).lr))

\* Quad.from_rect(r)
CallQuadFromRect ==
    /\ CanCall
    /\ \E a \in Addr("Rect") :
          AfterCall("Quad.from_rect", <<a>>,
                    WithQuad(loc.heap, QuadFromRect(Obj(a))),
                    Ref(Len(loc.heap) + 5))

\* q.to_rect()
CallQuadToRect ==
    /\ CanCall
    /\ \E a \in Addr("Quad") :
          AfterConstruct("Quad.to_rect", <<a>>, "Rect", QuadToRect(QuadAt(a)))

\* q.transform(m)
CallQuadTransform ==
    /\ CanCall
    /\ \E a \in Addr("Quad"), b \in Addr("Matrix") :
          AfterCall("Quad.transform", <<a, b>>,
                    WithQuad(loc.heap, QuadTransform(QuadAt(a), Obj(b))),
                    Ref(Len(loc.heap) + 5))

NextFrame ==
    \/ CallPointTransform
    \/ CallRectContains
    \/ CallRectUnion
    \/ CallRectIntersect
    \/ CallRectTransform
    \/ CallMatrixConcat
    \/ CallMatrixInvert
    \/ CallQuadFromRect
    \/ CallQuadToRect
    \/ CallQuadTransform

SpecFrame == InitFrame /\ [][NextFrame]_vars

\* C14: geometry operations never mutate their operands: across every call
\* of Point.transform, Rect.contains/union/intersect/transform,
\* Matrix.concat/invert and Quad.from_rect/to_rect/transform, every object
\* that existed before the call (the receiver and every argument among
\* them) has the field values it had, and a result that is an object is a
\* new one.
C14_OperandsNotMutated ==
    [][ (loc.caller = "geometry" /\ loc'.calls = loc.calls + 1)
          => /\ Len(loc'.heap) >= Len(loc.heap)
             /\ \A a \in 1..Len(loc.heap) : loc'.heap[a] = loc.heap[a]
             /\ loc'.ret.kind = "ref" => loc'.ret.addr > Len(loc.heap) ]_vars

\* C14 witness: two calls made, the second on the result of the first, a
\* transform whose result differs from its receiver; the objects the calls
\* started from are as they were.
C14_Witness ==
    /\ loc.caller = "geometry"
    /\ loc.calls = 2
    /\ loc.last = "Rect.transform"
    /\ loc.args[1] > Len(loc.heap0)
    /\ loc.ret.kind = "ref"
    /\ loc.heap[loc.ret.addr] # loc.heap[loc.args[1]]
    /\ \A a \in 1..Len(loc.heap0) : loc.heap[a] = loc.heap0[a]

\* C14 as a state predicate: whatever calls were made, the objects they
\* started from hold what they held.
C14_InitialObjectsKept ==
    loc.caller = "geometry"
      => \A a \in 1..Len(loc.heap0) : loc.heap[a] = loc.heap0[a]

====
